---- MODULE Spec2Model ----
(***************************************************************************)
(* TableBuilder2 (parallel SSTable builder of basho/leveldb) and its       *)
(* driver BuildTable, as a state machine.                                  *)
(*                                                                         *)
(* Threads: one ingest thread (the caller of Add/Flush/Finish/Abandon) and *)
(* eTB2Threads workers running WorkerThread.  A section of code run under  *)
(* m_CvMutex is one action.  Code run outside the mutex is joined to the   *)
(* critical section before or after it when it touches only data no other  *)
(* thread reads at that time (a slot the thread owns, the index block, the *)
(* offset), and is an action of its own when it reads or writes the shared *)
(* status or the flags.  m_CondVar is the set `waiting` of threads blocked *)
(* in Wait(); SignalAll empties it.                                        *)
(*                                                                         *)
(* assert() is recorded in `asserts` and execution continues, which is the *)
(* NDEBUG build; the behaviours of a build with assertions enabled are the *)
(* prefixes that end at the first recorded assertion.                      *)
(***************************************************************************)
EXTENDS Integers, Sequences, FiniteSets, TLC

\* ---------------------------------------------------------------- bounds
MaxKeys == 6          \* keys the client offers to Add when the file never fails
MaxErrKeys == 3       \* keys the client offers to Add when the file may fail
MaxBlockRecs == 2     \* options.block_size, counted in records
MaxIOErrors == 1      \* I/O errors the file may produce in one run
MaxSrcLen == 5        \* bytes of a slice given to DecodeFrom
MaxLost == 1          \* increments that lose their update in one run
MaxAbandon == 2       \* calls of Abandon by the client
RecBytes == 8         \* bytes one record takes in a block

\* ------------------------------------------------------ program constants
eTB2Buffers == 5
eTB2Threads == 2
kBlockTrailerSize == 5
kFooterSize == 48                \* Footer::kEncodedLength

Slots == 0 .. (eTB2Buffers - 1)
Workers == 1 .. eTB2Threads
Ingest == 0                      \* thread id of the ingest thread

\* BlockNState::State_e
eBNStateEmpty == "Empty"
eBNStateLoading == "Loading"
eBNStateFull == "Full"
eBNStateCompress == "Compressing"
eBNStateKeyWait == "KeyWait"
eBNStateReady == "Ready"
eBNStateWriting == "Writing"
eBNStateCopying == "Copying"

kNoCompression == "none"
kSnappyCompression == "snappy"

\* options.compression
compression == kSnappyCompression

OK == 0                          \* Status::OK(); n > 0 is the n-th I/O error

VARIABLES
    m_Blocks,      \* [Slots -> BlockNState]
    m_NextAdd, m_NextWrite, m_Abort, m_Finish,
    m_Writers,     \* [Workers -> BOOLEAN]: TRUE while the pthread_t is non-zero
    status,        \* rep_->status
    offset,        \* rep_->offset
    closed,        \* rep_->closed
    num_entries,   \* rep_->num_entries
    index_block,   \* rep_->index_block: sequence of [key, offset, size]
    file,          \* regions handed out by WritableFile::Allocate, in file order
    waiting,       \* threads blocked in m_CondVar.Wait()
    pc, stack,     \* ingest thread: position and return addresses
    curKey,        \* ingest thread: the key argument of Add
    wpc, widx, wdest,   \* workers: position, slot index (idx), dest_ptr
    joined,        \* [Workers -> number of pthread_join calls made on the worker]
    ioLimit,       \* I/O errors the file produces at most in this run
    lostLimit,     \* racing increments that lose their update at most in this run
    lost,          \* history: increments that lost their update so far
    writes,        \* history: the writes to the shared fields, with or without m_CvMutex
    dec,           \* a call of SstCounters::DecodeFrom: its object, locals and position
    ioErrs,        \* I/O errors produced so far
    asserts,       \* assertions that evaluated to false
    flushed,       \* history: the keys of each block Flush handed on, in order
    block_size,    \* options.block_size, counted in records
    sst_counters,  \* r->sst_counters: [counter index -> value]
    placed,        \* history: the keys of each block given its place in the file
    input,         \* BuildTable: the records iter yields, in order
    smallest_snapshot,  \* BuildTable: its argument
    iterPos,       \* BuildTable: the position of iter in input
    iterErrAt,     \* BuildTable: the position at which iter fails; 0 for never
    s,             \* BuildTable: its local Status s
    meta,          \* BuildTable: *meta
    previous,      \* KeyRetirement: the user key offered last; 0 when unset
    fileExists,    \* BuildTable: the file fname exists in env
    decisions,     \* history: what retire returned for each key offered
    btCalls,       \* history: BuildTable's calls of Finish and Abandon
    btSteps,       \* history: the steps BuildTable executed
    btRet,         \* BuildTable's result
    keyLimit,      \* client: keys it offers at most
    nAdd, nAbandon, finRet  \* client: Add calls, Abandon calls, Finish's result

builderVars == << m_Blocks, m_NextAdd, m_NextWrite, m_Abort, m_Finish, m_Writers,
                  status, offset, closed, num_entries, index_block, file, waiting >>
workerVars == << wpc, widx, wdest >>
clientVars == << keyLimit, nAdd, nAbandon, finRet >>
driverVars == << input, smallest_snapshot, iterPos, iterErrAt, s, meta, previous,
                 fileExists, decisions, btCalls, btSteps, btRet >>

vars == << builderVars, pc, stack, curKey, workerVars, clientVars,
           joined, ioLimit, lostLimit, dec, writes, ioErrs, asserts, flushed, block_size, sst_counters, lost, placed, driverVars >>

\* ------------------------------------------------------------- BlockNState
EmptyBlock ==
    [ m_State |-> eBNStateEmpty, keys |-> << >>, m_LastKey |-> 0,
      m_KeyShortened |-> FALSE, m_Type |-> kNoCompression, size |-> 0 ]

\* BlockNState::reset
Reset(b) == EmptyBlock

\* BlockNState::empty
IsEmpty(b) == b.m_State = eBNStateEmpty

Pred(i) == (i + eTB2Buffers - 1) % eTB2Buffers
Succ(i) == (i + 1) % eTB2Buffers

\* ok()
ok == status = OK

\* assert(cond) at `label`
Check(cond, label) == IF cond THEN {} ELSE {label}

\* A write to `field` by a thread that holds m_CvMutex (locked) or does not.
Wr(field, locked) == [field |-> field, locked |-> locked]

\* A variant of SignalAll that wakes no thread.
SignalAll_Lost == waiting

\* m_CondVar.SignalAll()
SignalAll == {}

\* The result of Finish, as the client sees it.
NotCalled == << "not called" >>
InCall == << "running" >>
Returned(r) == << "returned", r >>

\* --------------------------------------------------------------- comparator
\* Keys are integers and the keys offered to Add are even, so that a key may
\* lie strictly between two of them.  The comparator shortens the keys that
\* are multiples of 4 and leaves the others as they are.
Shortens(key) == key % 4 = 0

\* Comparator::FindShortestSeparator(start, limit): a key in [start, limit);
\* start is left unchanged when there is none.
FindShortestSeparator(start, limit) ==
    IF Shortens(start) /\ start + 1 < limit THEN start + 1 ELSE start

\* Comparator::FindShortSuccessor(key): a key >= key.
FindShortSuccessor(key) == IF Shortens(key) THEN key + 1 ELSE key

\* ------------------------------------------------------------ ingest thread
Return ==
    /\ pc' = Head(stack)
    /\ stack' = Tail(stack)

\* A variant of Helpful that takes an Empty block only.
Helpful_OnlyEmpty(b) == b.m_State = eBNStateEmpty

\* Add, lines 82-83 and 90-91: the state is helpful.
Helpful(b) == b.m_State = eBNStateLoading \/ b.m_State = eBNStateEmpty

\* Add(key), lines 76-97, called from a place that goes on at `retpc`: the
\* closed/ok tests and the unlocked test of the state.
CallAdd(key, retpc) ==
    /\ asserts' = asserts \cup Check(~closed, "Add:!closed")
    /\ curKey' = key
    /\ IF ~ok
         THEN pc' = retpc /\ stack' = << >>
         ELSE /\ pc' = IF Helpful(m_Blocks[m_NextAdd]) THEN "Add_first" ELSE "Add_wait"
              /\ stack' = << retpc >>

\* Add, lines 87-94: under the mutex, wait until the state is helpful.
Add_Wait ==
    /\ pc = "Add_wait"
    /\ Ingest \notin waiting
    /\ IF Helpful(m_Blocks[m_NextAdd])
         THEN pc' = "Add_first" /\ UNCHANGED waiting
         ELSE pc' = pc /\ waiting' = waiting \cup {Ingest}
    /\ UNCHANGED << m_Blocks, m_NextAdd, m_NextWrite, m_Abort, m_Finish, m_Writers,
                    status, offset, closed, num_entries, index_block, file,
                    workerVars, clientVars,
                    stack, curKey, joined, ioLimit, lostLimit, dec, writes, flushed, block_size, sst_counters, lost, placed, driverVars, ioErrs, asserts >>

\* A variant of ShortenPrior that makes the block Ready whatever its state.
ShortenPrior_AlwaysReady(bs, idx, sep) ==
    [bs EXCEPT ![idx].m_LastKey = sep,
               ![idx].m_KeyShortened = TRUE,
               ![idx].m_State = eBNStateReady]

\* The separator step of Add, lines 123-135, on the blocks `bs`.
ShortenPrior(bs, idx, sep) ==
    [bs EXCEPT ![idx].m_LastKey = sep,
               ![idx].m_KeyShortened = TRUE,
               ![idx].m_State = IF @ = eBNStateKeyWait THEN eBNStateReady ELSE @]

\* Add, lines 146-148, on the blocks `bs`.
PutKey(bs, idx, key) ==
    [bs EXCEPT ![idx].m_LastKey = key,
               ![idx].keys = Append(@, key)]

\* Add, lines 99-157: the sanity tests; for the first key of a block, the
\* critical section that starts the block and shortens the prior block's key;
\* then the key goes into the block, and a block that reached
\* options.block_size is flushed.
Add_First ==
    /\ pc = "Add_first"
    /\ LET b == m_Blocks[m_NextAdd]
           idx == Pred(m_NextAdd)
           first == b.m_State = eBNStateEmpty
           prior == first /\ m_Blocks[idx].m_State # eBNStateEmpty
           loading == [m_Blocks EXCEPT ![m_NextAdd].m_State = eBNStateLoading]
           started ==
               IF prior
                 THEN ShortenPrior(loading, idx,
                          FindShortestSeparator(m_Blocks[idx].m_LastKey, curKey))
                 ELSE IF first THEN loading ELSE m_Blocks
       IN /\ asserts' = asserts
                \cup Check(Helpful(b), "Add:state")
                \cup Check(first \/ curKey > b.m_LastKey, "Add:order")
                \cup Check(~first \/ b.keys = << >>, "Add:empty")
                \cup Check(~prior \/ ~m_Blocks[idx].m_KeyShortened, "Add:!shortened")
          /\ m_Blocks' = PutKey(started, m_NextAdd, curKey)
          /\ waiting' = IF prior /\ m_Blocks[idx].m_State = eBNStateKeyWait
                          THEN SignalAll ELSE waiting
          /\ num_entries' = num_entries + 1
          /\ IF Len(b.keys) + 1 >= block_size
               THEN pc' = "Flush" /\ UNCHANGED stack
               ELSE Return
    /\ writes' = writes
          \cup (IF m_Blocks[m_NextAdd].m_State = eBNStateEmpty
                  THEN {Wr("m_State", TRUE)} ELSE {})
          \cup (IF /\ m_Blocks[m_NextAdd].m_State = eBNStateEmpty
                   /\ m_Blocks[Pred(m_NextAdd)].m_State # eBNStateEmpty
                  THEN {Wr("m_LastKey", TRUE)} ELSE {})
          \cup {Wr("m_LastKey", FALSE)}
    /\ UNCHANGED << m_NextAdd, m_NextWrite, m_Abort, m_Finish, m_Writers,
                    status, offset, closed, index_block, file,
                    workerVars, clientVars,
                    curKey, joined, ioLimit, lostLimit, dec, flushed, block_size, sst_counters, lost, placed, driverVars, ioErrs >>

\* Flush, lines 167-168, with the return addresses `rets`: the closed/ok tests.
EnterFlush(rets) ==
    /\ asserts' = asserts \cup Check(~closed, "Flush:!closed")
    /\ IF ok
         THEN pc' = "Flush_cs" /\ stack' = rets
         ELSE pc' = Head(rets) /\ stack' = Tail(rets)

\* Flush called by Add, line 156.
Flush_Begin ==
    /\ pc = "Flush"
    /\ EnterFlush(stack)
    /\ UNCHANGED << builderVars, workerVars, clientVars,
                    curKey, joined, ioLimit, lostLimit, dec, writes, flushed, block_size, sst_counters, lost, placed, driverVars, ioErrs >>

\* Flush, lines 170-180, on the state of the block at m_NextAdd.
Flushed(st) == IF st = eBNStateLoading THEN eBNStateFull ELSE st

Flush_Cs ==
    /\ pc = "Flush_cs"
    /\ IF m_Blocks[m_NextAdd].m_State = eBNStateLoading
         THEN /\ m_Blocks' = [m_Blocks EXCEPT ![m_NextAdd].m_State = Flushed(@)]
              /\ m_NextAdd' = Succ(m_NextAdd)
              /\ waiting' = SignalAll
              /\ flushed' = Append(flushed, m_Blocks[m_NextAdd].keys)
         ELSE UNCHANGED << m_Blocks, m_NextAdd, waiting, flushed >>
    /\ Return
    /\ writes' = writes
          \cup (IF m_Blocks[m_NextAdd].m_State = eBNStateLoading
                  THEN {Wr("m_State", TRUE), Wr("m_NextAdd", TRUE)} ELSE {})
    /\ UNCHANGED << m_NextWrite, m_Abort, m_Finish, m_Writers,
                    status, offset, closed, num_entries, index_block, file,
                    workerVars, clientVars, block_size, sst_counters, lost, placed, driverVars,
                    curKey, joined, ioLimit, lostLimit, dec, ioErrs, asserts >>

\* Finish, line 501, called from a place that goes on at `retpc`.
CallFinish(retpc) == EnterFlush(<< "Finish_set", retpc >>)

\* Finish, lines 502-511.
Finish_Set ==
    /\ pc = "Finish_set"
    /\ asserts' = asserts \cup Check(~closed, "Finish:!closed")
    /\ m_Finish' = TRUE
    /\ waiting' = SignalAll
    /\ pc' = "Finish_join"
    /\ writes' = writes \cup {Wr("m_Finish", TRUE)}
    /\ UNCHANGED << m_Blocks, m_NextAdd, m_NextWrite, m_Abort, m_Writers,
                    status, offset, closed, num_entries, index_block, file,
                    workerVars, clientVars,
                    stack, curKey, joined, ioLimit, lostLimit, dec, flushed, block_size, sst_counters, lost, placed, driverVars, ioErrs >>

\* TableBuilder::Finish (base class): the offset once the trailing blocks and
\* the footer are appended, which happens when the status is ok.
SealedOffset(off) == IF ok THEN off + kFooterSize ELSE off

\* Finish, lines 513-522: pthread_join returns once the worker has returned;
\* then TableBuilder::Finish (base class) closes the builder, seals the file
\* and returns the status.
Finish_Join ==
    /\ pc = "Finish_join"
    /\ \A w \in Workers : wpc[w] = "done"
    /\ joined' = [w \in Workers |-> joined[w] + 1]
    /\ m_Writers' = [w \in Workers |-> FALSE]
    /\ closed' = TRUE
    /\ offset' = SealedOffset(offset)
    /\ finRet' = Returned(status)
    /\ Return
    /\ UNCHANGED << m_Blocks, m_NextAdd, m_NextWrite, m_Abort, m_Finish,
                    status, num_entries, index_block, file, waiting,
                    workerVars, keyLimit, nAdd, nAbandon,
                    curKey, ioLimit, lostLimit, dec, writes, flushed, block_size, sst_counters, lost, placed, driverVars, ioErrs, asserts >>

\* Abandon, lines 528-534, called from a place that goes on at `retpc`:
\* written without the mutex.
CallAbandon(retpc) ==
    /\ asserts' = asserts \cup Check(~closed, "Abandon:!closed")
    /\ closed' = TRUE
    /\ m_Finish' = TRUE
    /\ writes' = writes \cup {Wr("m_Finish", FALSE)}
    /\ pc' = "Abandon_abort"
    /\ stack' = << retpc >>

\* Abandon, line 535: written without the mutex.
Abandon_Abort ==
    /\ pc = "Abandon_abort"
    /\ m_Abort' = TRUE
    /\ pc' = "Abandon_signal"
    /\ writes' = writes \cup {Wr("m_Abort", FALSE)}
    /\ UNCHANGED << m_Blocks, m_NextAdd, m_NextWrite, m_Finish, m_Writers,
                    status, offset, closed, num_entries, index_block, file, waiting,
                    workerVars, clientVars,
                    stack, curKey, joined, ioLimit, lostLimit, dec, flushed, block_size, sst_counters, lost, placed, driverVars, ioErrs, asserts >>

\* Abandon, lines 536-539.
Abandon_Signal ==
    /\ pc = "Abandon_signal"
    /\ waiting' = SignalAll
    /\ pc' = "Abandon_join"
    /\ UNCHANGED << m_Blocks, m_NextAdd, m_NextWrite, m_Abort, m_Finish, m_Writers,
                    status, offset, closed, num_entries, index_block, file,
                    workerVars, clientVars,
                    stack, curKey, joined, ioLimit, lostLimit, dec, writes, flushed, block_size, sst_counters, lost, placed, driverVars, ioErrs, asserts >>

\* Abandon, lines 540-544: the workers whose m_Writers entry is non-zero.
ToJoin == {w \in Workers : m_Writers[w]}

\* Abandon, lines 540-544: m_Writers[loop] is joined when non-zero and is not
\* set to zero afterwards.  pthread_join of a thread that was joined before is
\* undefined: it returns, or the process dies.
Abandon_Join ==
    /\ pc = "Abandon_join"
    /\ \A w \in ToJoin : wpc[w] = "done"
    /\ joined' = [w \in Workers |-> IF w \in ToJoin THEN joined[w] + 1 ELSE joined[w]]
    /\ \/ Return
       \/ (\E w \in ToJoin : joined[w] > 0) /\ pc' = "crashed" /\ UNCHANGED stack
    /\ UNCHANGED << builderVars, workerVars, clientVars,
                    curKey, ioLimit, lostLimit, dec, writes, flushed, block_size, sst_counters, lost, placed, driverVars, ioErrs, asserts >>

\* -------------------------------------------------------------- the client
\* A caller of the builder: Add with strictly increasing keys and Flush in any
\* order, then Finish or Abandon; Abandon may be called again.
Live == nAbandon = 0 /\ finRet = NotCalled

ClientAdd ==
    /\ pc = "idle" /\ Live
    /\ nAdd < keyLimit
    /\ nAdd' = nAdd + 1
    /\ CallAdd(2 * (nAdd + 1), "idle")
    /\ UNCHANGED << builderVars, workerVars, keyLimit, nAbandon, finRet,
                    joined, ioLimit, lostLimit, dec, writes, flushed, block_size, sst_counters, lost, placed, driverVars, ioErrs >>

ClientFlush ==
    /\ pc = "idle" /\ Live
    /\ m_Blocks[m_NextAdd].m_State = eBNStateLoading
    /\ EnterFlush(<< "idle" >>)
    /\ UNCHANGED << builderVars, workerVars, clientVars,
                    curKey, joined, ioLimit, lostLimit, dec, writes, flushed, block_size, sst_counters, lost, placed, driverVars, ioErrs >>

ClientFinish ==
    /\ pc = "idle" /\ Live
    /\ finRet' = InCall
    /\ CallFinish("idle")
    /\ UNCHANGED << builderVars, workerVars, keyLimit, nAdd, nAbandon,
                    curKey, joined, ioLimit, lostLimit, dec, writes, flushed, block_size, sst_counters, lost, placed, driverVars, ioErrs >>

ClientAbandon ==
    /\ pc = "idle"
    /\ finRet = NotCalled
    /\ nAbandon < MaxAbandon
    /\ nAbandon' = nAbandon + 1
    /\ CallAbandon("idle")
    /\ UNCHANGED << m_Blocks, m_NextAdd, m_NextWrite, m_Abort, m_Writers,
                    status, offset, num_entries, index_block, file, waiting,
                    workerVars, keyLimit, nAdd, finRet,
                    curKey, joined, ioLimit, lostLimit, dec, flushed, block_size, sst_counters, lost, placed, driverVars, ioErrs >>

\* ----------------------------------------------------------------- workers
AllEmpty == \A i \in Slots : IsEmpty(m_Blocks[i])

\* A variant of Running that does not look at m_Abort.
Running_NoAbort == ~(m_Finish /\ AllEmpty)

\* A variant of Running that stops at Finish without waiting for the slots
\* to be empty.
Running_NoDrain == ~m_Abort /\ ~m_Finish

\* WorkerThread, line 208.
Running == ~m_Abort /\ ~(m_Finish /\ AllEmpty)

\* A variant of WorkAt without the step that finishes the last block.
WorkAt_NoLast(idx) ==
    IF idx = m_NextWrite /\ m_Blocks[idx].m_State = eBNStateReady
      THEN "write"
    ELSE IF m_Blocks[idx].m_State = eBNStateFull
      THEN "compress"
    ELSE "none"

\* A variant of WorkAt that finishes a KeyWait block without looking at
\* m_Finish.
WorkAt_NoFinish(idx) ==
    IF idx = m_NextWrite /\ m_Blocks[idx].m_State = eBNStateReady
      THEN "write"
    ELSE IF m_Blocks[idx].m_State = eBNStateFull
      THEN "compress"
    ELSE IF /\ idx = m_NextWrite
            /\ m_Blocks[idx].m_State = eBNStateKeyWait
            /\ m_Blocks[Succ(idx)].m_State = eBNStateEmpty
      THEN "last"
    ELSE "none"

\* A variant of WorkAt that takes a Ready block wherever it is in the ring.
WorkAt_AnyReady(idx) ==
    IF m_Blocks[idx].m_State = eBNStateReady
      THEN "write"
    ELSE IF m_Blocks[idx].m_State = eBNStateFull
      THEN "compress"
    ELSE IF /\ m_Finish
            /\ idx = m_NextWrite
            /\ m_Blocks[idx].m_State = eBNStateKeyWait
            /\ m_Blocks[Succ(idx)].m_State = eBNStateEmpty
      THEN "last"
    ELSE "none"

\* WorkerThread, lines 220-243: what the scan finds at slot idx.
WorkAt(idx) ==
    IF idx = m_NextWrite /\ m_Blocks[idx].m_State = eBNStateReady
      THEN "write"
    ELSE IF m_Blocks[idx].m_State = eBNStateFull
      THEN "compress"
    ELSE IF /\ m_Finish
            /\ idx = m_NextWrite
            /\ m_Blocks[idx].m_State = eBNStateKeyWait
            /\ m_Blocks[Succ(idx)].m_State = eBNStateEmpty
      THEN "last"
    ELSE "none"

\* WorkerThread, line 215: the scan starts at m_NextWrite and stops at the
\* first slot with work; -1 when there is none.
ScanSlot(k) == (m_NextWrite + k) % eTB2Buffers
FoundAt ==
    LET hits == {k \in 0 .. (eTB2Buffers - 1) : WorkAt(ScanSlot(k)) # "none"}
    IN IF hits = {} THEN -1
       ELSE ScanSlot(CHOOSE k \in hits : \A j \in hits : k <= j)

\* A variant of Taken that leaves a block taken for compression in Full.
Taken_FullNotMarked(b, kind) ==
    IF kind = "write" THEN [b EXCEPT !.m_State = eBNStateWriting]
    ELSE IF kind = "compress" THEN b
    ELSE [b EXCEPT !.m_LastKey = FindShortSuccessor(@),
                   !.m_KeyShortened = TRUE,
                   !.m_State = eBNStateWriting]

\* A variant of Taken whose step for the last block leaves m_KeyShortened as
\* it is.
Taken_KeyNotMarked(b, kind) ==
    IF kind = "write" THEN [b EXCEPT !.m_State = eBNStateWriting]
    ELSE IF kind = "compress" THEN [b EXCEPT !.m_State = eBNStateCompress]
    ELSE [b EXCEPT !.m_LastKey = FindShortSuccessor(@),
                   !.m_State = eBNStateWriting]

\* WorkerThread, lines 220-243: the block at idx once the worker took it.
Taken(b, kind) ==
    IF kind = "write" THEN [b EXCEPT !.m_State = eBNStateWriting]
    ELSE IF kind = "compress" THEN [b EXCEPT !.m_State = eBNStateCompress]
    ELSE [b EXCEPT !.m_LastKey = FindShortSuccessor(@),
                   !.m_KeyShortened = TRUE,
                   !.m_State = eBNStateWriting]

\* WorkerThread, lines 199-272: the critical section that looks for work, and
\* the dispatch on the state of the block taken.
Worker_Look(w) ==
    /\ wpc[w] = "look"
    /\ w \notin waiting
    /\ IF ~Running
         THEN /\ wpc' = [wpc EXCEPT ![w] = "done"]
              /\ UNCHANGED << m_Blocks, waiting, widx, asserts >>
         ELSE IF FoundAt = -1
           THEN /\ waiting' = waiting \cup {w}
                /\ UNCHANGED << m_Blocks, wpc, widx, asserts >>
           ELSE LET idx == FoundAt
                    kind == WorkAt(idx)
                IN /\ widx' = [widx EXCEPT ![w] = idx]
                   /\ m_Blocks' = [m_Blocks EXCEPT ![idx] = Taken(@, kind)]
                   /\ asserts' = asserts
                        \cup Check(kind # "last" \/ ~m_Blocks[idx].m_KeyShortened,
                                   "Worker:!shortened")
                   /\ wpc' = [wpc EXCEPT ![w] =
                                IF kind = "compress" THEN "Compress" ELSE "Write"]
                   /\ UNCHANGED waiting
    /\ writes' = writes
          \cup (IF Running /\ FoundAt # -1 THEN {Wr("m_State", TRUE)} ELSE {})
          \cup (IF Running /\ FoundAt # -1 /\ WorkAt(FoundAt) = "last"
                  THEN {Wr("m_LastKey", TRUE)} ELSE {})
    /\ UNCHANGED << m_NextAdd, m_NextWrite, m_Abort, m_Finish, m_Writers,
                    status, offset, closed, num_entries, index_block, file,
                    pc, stack, curKey, clientVars, ioLimit, lostLimit, dec, flushed, block_size, sst_counters, lost, placed, driverVars,
                    wdest, joined, ioErrs >>

\* port::Snappy_Compress on a block: the size of the compressed form.  A block
\* of one record does not compress below the limit of CompressBlock, a larger
\* one does.
Snappy_Compress(keys) ==
    LET raw == RecBytes * Len(keys)
    IN IF Len(keys) >= 2 THEN raw - (raw \div 8) - 1 ELSE raw - (raw \div 8)

\* A variant of StoredAs that keeps the compressed form at the limit too.
StoredAs_AtMost(type, raw, csize) ==
    IF type = kSnappyCompression /\ csize <= raw - (raw \div 8)
      THEN [m_Type |-> kSnappyCompression, size |-> csize]
      ELSE [m_Type |-> kNoCompression, size |-> raw]

\* CompressBlock, lines 291-313: the stored type and size of a block of `raw`
\* bytes that Snappy compressed to `csize` bytes.
StoredAs(type, raw, csize) ==
    IF type = kSnappyCompression /\ csize < raw - (raw \div 8)
      THEN [m_Type |-> kSnappyCompression, size |-> csize]
      ELSE [m_Type |-> kNoCompression, size |-> raw]

\* A variant of AfterCompress that leaves the block in Compressing.
AfterCompress_NotParked(b, atNextWrite) == b.m_State

\* A variant of AfterCompress that never parks a block in KeyWait.
AfterCompress_NoKeyWait(b, atNextWrite) ==
    IF atNextWrite /\ b.m_KeyShortened THEN eBNStateWriting ELSE eBNStateReady

\* A variant of AfterCompress that writes a block as soon as its key is
\* shortened, whatever its place in the ring.
AfterCompress_AnyPlace(b, atNextWrite) ==
    IF b.m_KeyShortened THEN eBNStateWriting ELSE eBNStateKeyWait

\* CompressBlock, lines 325-342: the state after compression.
AfterCompress(b, atNextWrite) ==
    IF b.m_KeyShortened
      THEN IF atNextWrite THEN eBNStateWriting ELSE eBNStateReady
      ELSE eBNStateKeyWait

\* The counters of SstCounters that CompressBlock increments.
eSstCountBlocks == "Blocks"
eSstCountCompressAborted == "CompressAborted"

\* SstCounters::SstCounters: the counters start at 0.
NewSstCounters ==
    [c \in {eSstCountBlocks, eSstCountCompressAborted} |-> 0]

\* Worker w runs the unlocked part of CompressBlock while another worker is in
\* it too: their calls of SstCounters::Inc are not ordered by any lock.
Racing(w) == \E w2 \in Workers \ {w} : wpc[w2] = "Compress"

\* SstCounters::Inc, line 125: ++m_Counter[Index] is a load and a store of a
\* plain integer, with no lock and no atomic.  Alone it adds one; when it
\* races with another thread's Inc the update is applied or lost.
Inc(c, Index, racing) ==
    {[c EXCEPT ![Index] = @ + 1]} \cup (IF racing THEN {c} ELSE {})

\* The increments of a step from counters c to counters c2 that were lost,
\* `calls` being the calls of Inc the step made.
Lost(c, c2, calls) ==
    calls - (c2[eSstCountBlocks] - c[eSstCountBlocks])
          - (c2[eSstCountCompressAborted] - c[eSstCountCompressAborted])

\* CompressBlock, lines 291-313: what is stored for the block at slot idx.
Stored(idx) ==
    LET b == m_Blocks[idx]
    IN StoredAs(compression, RecBytes * Len(b.keys), Snappy_Compress(b.keys))

\* CompressBlock, lines 302-309: Snappy was tried and the block fell back to
\* its raw form.
Aborted(idx) ==
    compression = kSnappyCompression /\ Stored(idx).m_Type = kNoCompression

\* CompressBlock, lines 281-346: the block is counted and compressed outside
\* the mutex, then its state is updated under the mutex.
Worker_Compress(w) ==
    /\ wpc[w] = "Compress"
    /\ LET idx == widx[w]
           b == m_Blocks[idx]
           st == Stored(idx)
           next == AfterCompress(b, idx = m_NextWrite)
       IN /\ asserts' = asserts
                \cup Check(b.m_State = eBNStateCompress, "Compress:state")
                \cup Check(ok, "Compress:ok")
          /\ \E c1 \in Inc(sst_counters, eSstCountBlocks, Racing(w)) :
                sst_counters' \in IF Aborted(idx)
                                    THEN Inc(c1, eSstCountCompressAborted, Racing(w))
                                    ELSE {c1}
          /\ lost' = lost + Lost(sst_counters, sst_counters',
                                 IF Aborted(idx) THEN 2 ELSE 1)
          /\ lost' <= lostLimit
          /\ m_Blocks' = [m_Blocks EXCEPT ![idx].m_Type = st.m_Type,
                                          ![idx].size = st.size,
                                          ![idx].m_State = next]
          /\ wpc' = [wpc EXCEPT ![w] = IF next = eBNStateWriting
                                         THEN "Compress_write" ELSE "Compress_signal"]
    /\ writes' = writes \cup {Wr("m_State", TRUE)}
    /\ UNCHANGED << m_NextAdd, m_NextWrite, m_Abort, m_Finish, m_Writers,
                    status, offset, closed, num_entries, index_block, file, waiting,
                    pc, stack, curKey, clientVars, ioLimit, lostLimit, dec, flushed, block_size,
                    placed, driverVars, widx, wdest, joined, ioErrs >>

\* CompressBlock, lines 348-351.
Worker_CompressSignal(w) ==
    /\ wpc[w] = "Compress_signal"
    /\ waiting' = SignalAll
    /\ wpc' = [wpc EXCEPT ![w] = "look"]
    /\ widx' = [widx EXCEPT ![w] = -1]
    /\ UNCHANGED << m_Blocks, m_NextAdd, m_NextWrite, m_Abort, m_Finish, m_Writers,
                    status, offset, closed, num_entries, index_block, file,
                    pc, stack, curKey, clientVars, ioLimit, lostLimit, dec, writes, flushed, block_size, sst_counters, lost, placed, driverVars,
                    wdest, joined, ioErrs, asserts >>

\* ------------------------------------------------------------- WriteBlock2
\* Worker w enters WriteBlock2, called by WorkerThread (line 266) or called by
\* CompressBlock for the block it just compressed (line 346).
InWriteBlock2(w) == wpc[w] \in {"Write", "Compress_write"}

\* Results an I/O call of the file may give: ok, or the next I/O error.
IoResults == {OK} \cup (IF ioErrs < ioLimit THEN {ioErrs + 1} ELSE {})

\* WriteBlock2, line 435: the status after Allocate returned r.
AllocStatus(old, r) == r

\* A variant of Advance that leaves the trailer out.
Advance_Payload(off, total_size) == off + total_size - kBlockTrailerSize

\* WriteBlock2, line 440: the offset after a block of total_size bytes.
Advance(off, total_size) == off + total_size

\* A variant of IndexEntry that records the block's first key.
IndexEntry_FirstKey(b, off) == [key |-> b.keys[1], offset |-> off, size |-> b.size]

\* WriteBlock2, lines 438-452: the index entry of block b written at `off`.
IndexEntry(b, off) == [key |-> b.m_LastKey, offset |-> off, size |-> b.size]

\* WriteBlock2, lines 433-463, the part performed in file sequence: the region
\* is allocated, the status is overwritten with Allocate's, the offset advances
\* by the block's size and the index entry is added; then, under the mutex, the
\* next block is let into this part.
Worker_Write(w) ==
    /\ InWriteBlock2(w)
    /\ LET idx == widx[w]
           b == m_Blocks[idx]
           total_size == b.size + kBlockTrailerSize
       IN \E r \in IoResults :
            /\ status' = AllocStatus(status, r)
            /\ ioErrs' = IF r = OK THEN ioErrs ELSE r
            /\ IF r = OK
                 THEN /\ file' = Append(file, [size |-> total_size, data |-> << >>,
                                               trailer |-> FALSE])
                      /\ wdest' = [wdest EXCEPT ![w] = Len(file) + 1]
                 ELSE /\ UNCHANGED file
                      /\ wdest' = [wdest EXCEPT ![w] = 0]
            /\ asserts' = asserts
                  \cup Check(b.m_State = eBNStateWriting, "Write:state")
                  \cup Check(status' = OK, "Write:ok")
                  \cup Check(b.m_KeyShortened, "Write:shortened")
            /\ offset' = Advance(offset, total_size)
            /\ index_block' = Append(index_block, IndexEntry(b, offset))
            /\ placed' = Append(placed, b.keys)
            /\ m_Blocks' = [m_Blocks EXCEPT ![idx].m_State = eBNStateCopying]
            /\ m_NextWrite' = Succ(m_NextWrite)
            /\ waiting' = SignalAll
    /\ wpc' = [wpc EXCEPT ![w] = "Write_assign"]
    /\ writes' = writes \cup {Wr("m_State", TRUE), Wr("m_NextWrite", TRUE)}
    /\ UNCHANGED << m_NextAdd, m_Abort, m_Finish, m_Writers, closed, num_entries,
                    pc, stack, curKey, clientVars, ioLimit, lostLimit, dec, flushed, block_size, sst_counters, lost, driverVars, widx, joined >>

\* An I/O call on dest_ptr: one that Allocate did not fill fails.
DestResults(w) == IF wdest[w] = 0 THEN {ioErrs + 1} ELSE IoResults

\* WriteBlock2, lines 465-468: the payload is copied when the status is ok.
Worker_Assign(w) ==
    /\ wpc[w] = "Write_assign"
    /\ IF ok
         THEN \E r \in DestResults(w) :
                /\ status' = r
                /\ ioErrs' = IF r = OK THEN ioErrs ELSE r
                /\ file' = IF r = OK
                             THEN [file EXCEPT ![wdest[w]].data = m_Blocks[widx[w]].keys]
                             ELSE file
                /\ asserts' = asserts \cup Check(r = OK, "Write:assign ok")
         ELSE UNCHANGED << status, ioErrs, file, asserts >>
    /\ wpc' = [wpc EXCEPT ![w] = "Write_append"]
    /\ UNCHANGED << m_Blocks, m_NextAdd, m_NextWrite, m_Abort, m_Finish, m_Writers,
                    offset, closed, num_entries, index_block, waiting,
                    pc, stack, curKey, clientVars, ioLimit, lostLimit, dec, writes, flushed, block_size, sst_counters, lost, placed, driverVars, widx, wdest, joined >>

\* WriteBlock2, lines 469-489: the trailer is appended when the payload was
\* copied and the status is ok; then the buffer goes back in the pile.
Worker_Append(w) ==
    /\ wpc[w] = "Write_append"
    /\ IF ok /\ wdest[w] # 0 /\ file[wdest[w]].data # << >>
         THEN \E r \in DestResults(w) :
                /\ status' = r
                /\ ioErrs' = IF r = OK THEN ioErrs ELSE r
                /\ file' = IF r = OK
                             THEN [file EXCEPT ![wdest[w]].trailer = TRUE]
                             ELSE file
                /\ asserts' = asserts \cup Check(r = OK, "Write:append ok")
         ELSE UNCHANGED << status, ioErrs, file, asserts >>
    /\ m_Blocks' = [m_Blocks EXCEPT ![widx[w]] = Reset(@)]
    /\ waiting' = SignalAll
    /\ wpc' = [wpc EXCEPT ![w] = "look"]
    /\ widx' = [widx EXCEPT ![w] = -1]
    /\ wdest' = [wdest EXCEPT ![w] = 0]
    /\ writes' = writes \cup {Wr("m_State", TRUE), Wr("m_LastKey", TRUE)}
    /\ UNCHANGED << m_NextAdd, m_NextWrite, m_Abort, m_Finish, m_Writers,
                    offset, closed, num_entries, index_block,
                    pc, stack, curKey, clientVars, ioLimit, lostLimit, dec, flushed, block_size, sst_counters, lost, placed, driverVars, joined >>

\* --------------------------------------------------------------- BuildTable
kTypeValue == "Value"
kTypeDeletion == "Deletion"

\* dbformat.h: the largest sequence number.
kMaxSequenceNumber == 15

\* The records a table may be built from, in the order of the internal key
\* comparator: user keys ascending and, within a user key, sequence numbers
\* descending.  Every third record is a deletion.
Universe(n) ==
    [i \in 1 .. n |->
        [ukey |-> (i + 1) \div 2,
         seq |-> IF i % 2 = 1 THEN 10 ELSE 5,
         type |-> IF i % 3 = 0 THEN kTypeDeletion ELSE kTypeValue]]

\* The subsequences of the sequence u.
RECURSIVE SubSeqs(_)
SubSeqs(u) ==
    IF u = << >> THEN {<< >>}
    ELSE LET rest == SubSeqs(Tail(u))
         IN rest \cup {<< Head(u) >> \o t : t \in rest}

\* The internal key of a record as the builder's comparator orders it: the
\* user key, then the sequence number descending, then the type descending.
\* Internal keys are even, so that a key lies strictly between any two.
InternalKey(r) ==
    2 * (r.ukey * 32 + (kMaxSequenceNumber - r.seq) * 2
                     + (IF r.type = kTypeValue THEN 0 ELSE 1))

\* ParseInternalKey: the record an internal key stands for.
ParseInternalKey(k) ==
    LET h == k \div 2
    IN [ukey |-> h \div 32,
        seq |-> kMaxSequenceNumber - ((h % 32) \div 2),
        type |-> IF h % 2 = 0 THEN kTypeValue ELSE kTypeDeletion]

\* The status a failed iterator reports.
IterError == 0 - 1

\* iter->Valid() and iter->status()
IterFailed == iterErrAt # 0 /\ iterPos >= iterErrAt
IterValid == ~IterFailed /\ iterPos <= Len(input)
IterStatus == IF IterFailed THEN IterError ELSE OK

\* KeyRetirement::operator(): the key is retired when no snapshot can see it
\* and it is hidden by a newer version of its user key or is a deletion.
Retire(prev, r) ==
    /\ r.seq <= smallest_snapshot
    /\ (prev = r.ukey \/ r.type = kTypeDeletion)

\* A variant of Kept that lost the negation.
Kept_Inverted(retired) == retired

\* BuildTable, line 52: the record goes to the builder.
Kept(retired) == ~retired

\* iter->key(); what an iterator that is not valid gives is unspecified, and
\* is 0 here.
IterKey == IF iterPos <= Len(input) THEN InternalKey(input[iterPos]) ELSE 0

\* A variant of Builds that builds a table from every iterator.
Builds_Always == TRUE

\* BuildTable, line 34: a table is built.
Builds == IterValid

\* An error has been produced: by the iterator, by the builder, or by a step
\* whose result s holds.
ErrorSoFar == IterFailed \/ ~ok \/ s # OK

\* The record of a step that BuildTable executes now.
Step(name) == [op |-> name, after_error |-> ErrorSoFar]

\* BuildTable, lines 27-49: nothing is built from an empty iterator; else the
\* file is created, and BuildTable returns if that fails; else the builder is
\* constructed, which starts the workers.
BT_Start ==
    /\ pc = "bt_start"
    /\ IF ~Builds
         THEN /\ pc' = "bt_return"
              /\ UNCHANGED << s, ioErrs, fileExists, wpc, m_Writers, meta, btRet,
                              btSteps >>
         ELSE \E r \in IoResults :
                /\ btSteps' = btSteps \cup {Step("NewWritableFile")}
                /\ s' = r
                /\ ioErrs' = IF r = OK THEN ioErrs ELSE r
                /\ IF r # OK
                     THEN /\ btRet' = Returned(r)
                          /\ pc' = "bt_done"
                          /\ UNCHANGED << fileExists, wpc, m_Writers, meta >>
                     ELSE /\ fileExists' = TRUE
                          /\ wpc' = [w \in Workers |-> "look"]
                          /\ m_Writers' = [w \in Workers |-> TRUE]
                          /\ meta' = [meta EXCEPT !.smallest = IterKey]
                          /\ pc' = "bt_loop"
                          /\ UNCHANGED btRet
    /\ UNCHANGED << m_Blocks, m_NextAdd, m_NextWrite, m_Abort, m_Finish,
                    status, offset, closed, num_entries, index_block, file, waiting,
                    stack, curKey, widx, wdest, clientVars, joined, ioLimit, lostLimit, dec, writes,
                    asserts, flushed, block_size, sst_counters, lost, placed,
                    input, smallest_snapshot, iterPos, iterErrAt, previous,
                    decisions, btCalls >>

\* BuildTable, lines 50-58: one turn of the loop.  A key that retire keeps goes
\* to Add; the loop ends when iter is no longer valid.
BT_Loop ==
    /\ pc = "bt_loop"
    /\ IF ~IterValid
         THEN /\ pc' = "bt_finish"
              /\ UNCHANGED << stack, curKey, asserts, iterPos, meta, previous, decisions >>
         ELSE LET r == input[iterPos]
                  retired == Retire(previous, r)
              IN /\ previous' = r.ukey
                 /\ decisions' = Append(decisions, retired)
                 /\ iterPos' = iterPos + 1
                 /\ IF Kept(retired)
                      THEN /\ meta' = [meta EXCEPT !.largest = InternalKey(r),
                                                   !.num_entries = @ + 1]
                           /\ CallAdd(InternalKey(r), "bt_loop")
                      ELSE UNCHANGED << pc, stack, curKey, asserts, meta >>
    /\ UNCHANGED << builderVars, workerVars, clientVars, joined, ioLimit, lostLimit, dec, writes, ioErrs,
                    flushed, block_size, sst_counters, lost, placed,
                    input, smallest_snapshot, iterErrAt, s, fileExists, btCalls, btSteps,
                    btRet >>

\* BuildTable, lines 61-69: Finish when s is ok, else Abandon.
BT_Finish ==
    /\ pc = "bt_finish"
    /\ btCalls' = btCalls \cup {[op |-> IF s = OK THEN "Finish" ELSE "Abandon",
                                 ok |-> ok]}
    /\ btSteps' = IF s = OK THEN btSteps \cup {Step("Finish")} ELSE btSteps
    /\ IF s = OK
         THEN /\ CallFinish("bt_finished")
              /\ finRet' = InCall
              /\ UNCHANGED << closed, m_Finish, writes >>
         ELSE /\ CallAbandon("bt_sync")
              /\ UNCHANGED finRet
    /\ UNCHANGED << m_Blocks, m_NextAdd, m_NextWrite, m_Abort, m_Writers,
                    status, offset, num_entries, index_block, file, waiting,
                    curKey, workerVars, keyLimit, nAdd, nAbandon, joined,
                    ioLimit, lostLimit, dec, ioErrs, flushed, block_size, sst_counters, lost, placed,
                    input, smallest_snapshot, iterPos, iterErrAt, s, meta, previous,
                    fileExists, decisions, btRet >>

\* BuildTable, lines 62-66: Finish returned.
BT_Finished ==
    /\ pc = "bt_finished"
    /\ s' = finRet[2]
    /\ meta' = IF s' = OK THEN [meta EXCEPT !.file_size = offset] ELSE meta
    /\ asserts' = asserts \cup Check(s' # OK \/ offset > 0, "BuildTable:file_size")
    /\ pc' = "bt_sync"
    /\ UNCHANGED << builderVars, workerVars, clientVars, stack, curKey, joined,
                    ioLimit, lostLimit, dec, writes, ioErrs, flushed, block_size, sst_counters, lost, placed,
                    input, smallest_snapshot, iterPos, iterErrAt, previous,
                    fileExists, decisions, btCalls, btSteps, btRet >>

\* The step BuildTable is at.
StepName ==
    IF pc = "bt_sync" THEN "Sync" ELSE IF pc = "bt_close" THEN "Close" ELSE "Verify"

\* An I/O call made when s is ok and skipped otherwise; `next` is where
\* BuildTable goes on.
Guarded(next) ==
    /\ IF s = OK
         THEN \E r \in IoResults :
                /\ s' = r
                /\ ioErrs' = IF r = OK THEN ioErrs ELSE r
                /\ btSteps' = btSteps \cup {Step(StepName)}
         ELSE UNCHANGED << s, ioErrs, btSteps >>
    /\ pc' = next
    /\ UNCHANGED << builderVars, workerVars, clientVars, stack, curKey, joined,
                    ioLimit, lostLimit, dec, writes, asserts, flushed, block_size, sst_counters, lost, placed,
                    input, smallest_snapshot, iterPos, iterErrAt, meta, previous,
                    fileExists, decisions, btCalls, btRet >>

\* BuildTable, lines 73-78: file->Sync().
BT_Sync == pc = "bt_sync" /\ Guarded("bt_close")

\* BuildTable, lines 79-86: file->Close().
BT_Close == pc = "bt_close" /\ Guarded("bt_verify")

\* BuildTable, lines 88-96: the table is opened through the table cache.
BT_Verify == pc = "bt_verify" /\ Guarded("bt_return")

\* A variant of FinalStatus that does not look at the iterator.
FinalStatus_NoIter(st) == st

\* BuildTable, lines 99-102: the iterator's error replaces the status st.
FinalStatus(st) == IF IterStatus # OK THEN IterStatus ELSE st

\* BuildTable, lines 99-109: the iterator's error replaces s; the file is kept
\* when s is ok and the file is not empty, and deleted otherwise.
BT_Return ==
    /\ pc = "bt_return"
    /\ s' = FinalStatus(s)
    /\ fileExists' = IF s' = OK /\ meta.file_size > 0 THEN fileExists ELSE FALSE
    /\ btRet' = Returned(s')
    /\ pc' = "bt_done"
    /\ UNCHANGED << builderVars, workerVars, clientVars, stack, curKey, joined,
                    ioLimit, lostLimit, dec, writes, ioErrs, asserts, flushed, block_size, sst_counters, lost, placed,
                    input, smallest_snapshot, iterPos, iterErrAt, meta, previous,
                    decisions, btCalls, btSteps >>

\* ------------------------------------------------------ SstCounters decode
\* A byte of a varint holds a payload and, when another byte follows, the mark
\* kMore (128 in the code's encoding, scaled down).
kMore == 2
Bytes == 0 .. (2 * kMore - 1)

\* The bytes a varint32 and a varint64 take at most (5 and 10, scaled down).
kMaxVarint32Bytes == 2
kMaxVarint64Bytes == 3

\* The version DecodeFrom supports, and the number of counters.
eSstCountVersion == 1
eSstCountEnumSize == 2

RECURSIVE VarintValue(_, _)
\* The value of the varint held by the first n bytes.
VarintValue(bytes, n) ==
    IF n = 0 THEN 0
    ELSE (bytes[1] % kMore) + kMore * VarintValue(Tail(bytes), n - 1)

\* GetVarint32 / GetVarint64: a varint of at most maxLen bytes is taken from
\* the front of cursor; when the bytes run out or the varint is too long the
\* call fails and the cursor stays.
GetVarint(cursor, maxLen) ==
    LET ends == {n \in 1 .. Len(cursor) :
                    /\ n <= maxLen
                    /\ cursor[n] < kMore
                    /\ \A j \in 1 .. (n - 1) : cursor[j] >= kMore}
    IN IF ends = {}
         THEN [good |-> FALSE, value |-> 0, rest |-> cursor]
         ELSE LET n == CHOOSE n \in ends : TRUE
              IN [good |-> TRUE, value |-> VarintValue(cursor, n),
                  rest |-> SubSeq(cursor, n + 1, Len(cursor))]

\* What an integer that was never assigned may hold.
Unassigned == 0 .. 1

\* DecodeFrom, lines 83-93, on a SstCounters just constructed (lines 54-66).
StartDecode(src, at) ==
    [pc |-> at, src |-> src, cursor |-> src, good |-> FALSE, loop |-> 0,
     m_IsReadOnly |-> TRUE, m_Version |-> eSstCountVersion,
     m_CounterSize |-> eSstCountEnumSize,
     m_Counter |-> [i \in 0 .. (eSstCountEnumSize - 1) |-> 0],
     ret_status |-> OK, ret |-> NotCalled]

\* No call of DecodeFrom is made.
NoDecode == StartDecode(<< >>, "none")

\* DecodeFrom, lines 94-95: the version is read and tested.
Decode_Version ==
    /\ dec.pc = "version"
    /\ LET r == GetVarint(dec.cursor, kMaxVarint32Bytes)
           version == IF r.good THEN r.value ELSE dec.m_Version
       IN dec' = [dec EXCEPT !.cursor = r.rest,
                             !.m_Version = version,
                             !.good = r.good /\ version <= eSstCountVersion,
                             !.pc = "size"]
    /\ UNCHANGED << builderVars, pc, stack, curKey, workerVars, clientVars,
                    joined, ioLimit, lostLimit, writes, ioErrs, asserts, flushed, block_size,
                    sst_counters, lost, placed, driverVars >>

\* DecodeFrom, lines 98-100: the number of counters is read when all is good,
\* and cut to the number this code knows.
Decode_Size ==
    /\ dec.pc = "size"
    /\ LET r == GetVarint(dec.cursor, kMaxVarint32Bytes)
           read == dec.good /\ r.good
           size == IF read THEN r.value ELSE dec.m_CounterSize
       IN dec' = [dec EXCEPT !.cursor = IF dec.good THEN r.rest ELSE @,
                             !.good = read,
                             !.m_CounterSize = IF read /\ eSstCountEnumSize < size
                                                 THEN eSstCountEnumSize ELSE size,
                             !.pc = "counters"]
    /\ UNCHANGED << builderVars, pc, stack, curKey, workerVars, clientVars,
                    joined, ioLimit, lostLimit, writes, ioErrs, asserts, flushed, block_size,
                    sst_counters, lost, placed, driverVars >>

\* DecodeFrom, lines 102-107: one turn of the loop.  val is not assigned when
\* GetVarint64 fails, and is stored all the same.
Decode_Counter ==
    /\ dec.pc = "counters"
    /\ dec.good /\ dec.loop < eSstCountEnumSize
    /\ LET r == GetVarint(dec.cursor, kMaxVarint64Bytes)
       IN \E val \in (IF r.good THEN {r.value} ELSE Unassigned) :
            dec' = [dec EXCEPT !.cursor = r.rest,
                               !.good = r.good,
                               !.m_Counter[dec.loop] = val,
                               !.loop = @ + 1]
    /\ UNCHANGED << builderVars, pc, stack, curKey, workerVars, clientVars,
                    joined, ioLimit, lostLimit, writes, ioErrs, asserts, flushed, block_size,
                    sst_counters, lost, placed, driverVars >>

\* DecodeFrom, lines 102-111: the loop is over; ret_status, which nothing has
\* assigned, is returned.
Decode_Return ==
    /\ dec.pc = "counters"
    /\ ~(dec.good /\ dec.loop < eSstCountEnumSize)
    /\ dec' = [dec EXCEPT !.ret = Returned(dec.ret_status), !.pc = "done"]
    /\ UNCHANGED << builderVars, pc, stack, curKey, workerVars, clientVars,
                    joined, ioLimit, lostLimit, writes, ioErrs, asserts, flushed, block_size,
                    sst_counters, lost, placed, driverVars >>

\* ------------------------------------------------------------ specification
\* TableBuilder2::TableBuilder2, lines 30-54: the builder after construction.
InitBuilder ==
    /\ m_Blocks = [i \in Slots |-> EmptyBlock]
    /\ m_NextAdd = 0
    /\ m_NextWrite = 0
    /\ m_Abort = FALSE
    /\ m_Finish = FALSE
    /\ status = OK
    /\ offset = 0
    /\ closed = FALSE
    /\ num_entries = 0
    /\ index_block = << >>
    /\ file = << >>
    /\ waiting = {}
    /\ stack = << >>
    /\ curKey = 0
    /\ widx = [w \in Workers |-> -1]
    /\ wdest = [w \in Workers |-> 0]
    /\ joined = [w \in Workers |-> 0]
    /\ ioErrs = 0
    /\ asserts = {}
    /\ flushed = << >>
    /\ sst_counters = NewSstCounters
    /\ lost = 0
    /\ writes = {}
    /\ placed = << >>
    /\ nAdd = 0
    /\ nAbandon = 0
    /\ finRet = NotCalled

\* BuildTable is not running.
NoDriver ==
    /\ input = << >>
    /\ smallest_snapshot = 0
    /\ iterPos = 1
    /\ iterErrAt = 0
    /\ s = OK
    /\ meta = [smallest |-> 0, largest |-> 0, num_entries |-> 0, file_size |-> 0]
    /\ previous = 0
    /\ fileExists = FALSE
    /\ decisions = << >>
    /\ btCalls = {}
    /\ btSteps = {}
    /\ btRet = NotCalled

\* A client holds a builder just constructed: the workers run.
Init ==
    /\ InitBuilder
    /\ NoDriver
    /\ pc = "idle"
    /\ wpc = [w \in Workers |-> "look"]
    /\ m_Writers = [w \in Workers |-> TRUE]
    /\ block_size = MaxBlockRecs
    /\ dec = NoDecode
    /\ \/ ioLimit = 0 /\ lostLimit = 0 /\ keyLimit = MaxKeys
       \/ ioLimit = MaxIOErrors /\ lostLimit = 0 /\ keyLimit = MaxErrKeys
       \/ ioLimit = 0 /\ lostLimit = MaxLost /\ keyLimit = MaxErrKeys

Builder ==
    \/ Add_Wait \/ Add_First
    \/ Flush_Begin \/ Flush_Cs
    \/ Finish_Set \/ Finish_Join
    \/ Abandon_Abort \/ Abandon_Signal \/ Abandon_Join

Worker(w) ==
    \/ Worker_Look(w)
    \/ Worker_Compress(w) \/ Worker_CompressSignal(w)
    \/ Worker_Write(w) \/ Worker_Assign(w) \/ Worker_Append(w)

Client == ClientAdd \/ ClientFlush \/ ClientFinish \/ ClientAbandon

Next == Client \/ Builder \/ \E w \in Workers : Worker(w)

Spec == Init /\ [][Next]_vars

\* The client of a file that never fails, with every thread scheduled fairly:
\* a thread that can take a step takes one.  The client need not call.
InitFair ==
    /\ InitBuilder
    /\ NoDriver
    /\ pc = "idle"
    /\ wpc = [w \in Workers |-> "look"]
    /\ m_Writers = [w \in Workers |-> TRUE]
    /\ block_size = MaxBlockRecs
    /\ ioLimit = 0
    /\ lostLimit = 0
    /\ keyLimit = MaxKeys
    /\ dec = NoDecode

SpecFair ==
    /\ InitFair
    /\ [][Next]_vars
    /\ WF_vars(Builder)
    /\ \A w \in Workers : WF_vars(Worker(w))

\* BuildTable is called: no builder exists yet.  The file never fails and the
\* iterator yields up to MaxKeys records, or the file may fail, or the iterator
\* fails, and the iterator yields up to MaxErrKeys records.
Snapshots == {0, 7, 10}

InitBuild ==
    /\ InitBuilder
    /\ pc = "bt_start"
    /\ wpc = [w \in Workers |-> "unborn"]
    /\ m_Writers = [w \in Workers |-> FALSE]
    /\ keyLimit = 0
    /\ block_size \in 1 .. MaxBlockRecs
    /\ smallest_snapshot \in Snapshots
    /\ iterPos = 1
    /\ s = OK
    /\ meta = [smallest |-> 0, largest |-> 0, num_entries |-> 0, file_size |-> 0]
    /\ previous = 0
    /\ fileExists = FALSE
    /\ decisions = << >>
    /\ btCalls = {}
    /\ btSteps = {}
    /\ btRet = NotCalled
    /\ dec = NoDecode
    /\ \/ /\ ioLimit = 0
          /\ lostLimit = MaxLost
          /\ iterErrAt = 0
          /\ input \in SubSeqs(Universe(MaxErrKeys))
       \/ /\ ioLimit = 0
          /\ lostLimit = 0
          /\ iterErrAt = 0
          /\ input \in SubSeqs(Universe(MaxKeys))
       \/ /\ ioLimit = MaxIOErrors
          /\ lostLimit = 0
          /\ iterErrAt = 0
          /\ input \in SubSeqs(Universe(MaxErrKeys))
       \/ /\ ioLimit \in {0, MaxIOErrors}
          /\ lostLimit = 0
          /\ input \in SubSeqs(Universe(MaxErrKeys))
          /\ iterErrAt \in 1 .. (Len(input) + 1)

Driver ==
    \/ BT_Start \/ BT_Loop \/ BT_Finish \/ BT_Finished
    \/ BT_Sync \/ BT_Close \/ BT_Verify \/ BT_Return

\* BuildTable never reaches its call of Abandon (s is ok at line 61), so the
\* steps of Abandon are no part of a build.
BuilderInBuild ==
    \/ Add_Wait \/ Add_First
    \/ Flush_Begin \/ Flush_Cs
    \/ Finish_Set \/ Finish_Join

NextBuild == Driver \/ BuilderInBuild \/ \E w \in Workers : Worker(w)

SpecBuild == InitBuild /\ [][NextBuild]_vars

\* The slices given to DecodeFrom: every string of at most MaxSrcLen bytes.
Srcs == UNION {[1 .. n -> Bytes] : n \in 0 .. MaxSrcLen}

\* DecodeFrom is called on a slice; no builder runs.
InitDecode ==
    /\ InitBuilder
    /\ NoDriver
    /\ pc = "idle"
    /\ wpc = [w \in Workers |-> "unborn"]
    /\ m_Writers = [w \in Workers |-> FALSE]
    /\ block_size = MaxBlockRecs
    /\ ioLimit = 0
    /\ lostLimit = 0
    /\ keyLimit = 0
    /\ \E src \in Srcs : dec = StartDecode(src, "version")

NextDecode == Decode_Version \/ Decode_Size \/ Decode_Counter \/ Decode_Return

SpecDecode == InitDecode /\ [][NextDecode]_vars

\* -------------------------------------------------------------- properties
\* The blocks in the order of their first key: those Flush handed on, and the
\* one being loaded.
BlockSeq ==
    IF m_Blocks[m_NextAdd].m_State = eBNStateLoading
      THEN Append(flushed, m_Blocks[m_NextAdd].keys)
      ELSE flushed

RECURSIVE Concat(_)
Concat(seqs) == IF seqs = << >> THEN << >> ELSE Head(seqs) \o Concat(Tail(seqs))

\* The keys stored in the data blocks, read in file-offset order.
FileKeys == Concat([i \in 1 .. Len(file) |-> file[i].data])

\* The rule of the retirement filter for the i-th record of the input.
RetireRule(i) ==
    /\ input[i].seq <= smallest_snapshot
    /\ \/ i > 1 /\ input[i - 1].ukey = input[i].ukey
       \/ input[i].type = kTypeDeletion

\* The records among the first n of the input that the rule retains.
RECURSIVE Retained(_)
Retained(n) ==
    IF n = 0 THEN << >>
    ELSE IF RetireRule(n) THEN Retained(n - 1)
         ELSE Append(Retained(n - 1), input[n])

BuildReturned == btRet # NotCalled

\* C1: when BuildTable has returned from a build in which neither the file nor
\* the iterator failed, the records decoded from the data blocks in file
\* order are exactly the records of the input that the retirement rule
\* retains, in the input's order, each once, and every block is complete.
C1_OrderPreserved ==
    (BuildReturned /\ ioErrs = 0 /\ iterErrAt = 0) =>
        /\ [i \in 1 .. Len(FileKeys) |-> ParseInternalKey(FileKeys[i])]
             = Retained(Len(input))
        /\ \A i \in 1 .. Len(file) : file[i].trailer

C1_Witness ==
    /\ btRet = Returned(OK)
    /\ ioErrs = 0 /\ iterErrAt = 0
    /\ Len(input) >= 4
    /\ Len(file) >= 2
    /\ \E i \in 1 .. Len(decisions) : decisions[i]
    /\ \E i \in 1 .. Len(file) : Len(file[i].data) = MaxBlockRecs

\* C2: the key the index records for a block is >= the last key added to that
\* block and < the first key added to the next block, if there is one.
C2_IndexSeparators ==
    \A i \in 1 .. Len(index_block) :
        /\ i <= Len(BlockSeq)
        /\ index_block[i].key >= BlockSeq[i][Len(BlockSeq[i])]
        /\ i < Len(BlockSeq) => index_block[i].key < BlockSeq[i + 1][1]

C2_Witness ==
    /\ finRet = Returned(OK)
    /\ Len(index_block) >= 3
    /\ \E i \in 1 .. Len(index_block) :
          index_block[i].key > flushed[i][Len(flushed[i])]
    /\ \E i \in 1 .. Len(index_block) :
          index_block[i].key = flushed[i][Len(flushed[i])]

RECURSIVE SumBytes(_)
SumBytes(entries) ==
    IF entries = << >> THEN 0
    ELSE Head(entries).size + kBlockTrailerSize + SumBytes(Tail(entries))

\* The blocks whose payload and trailer are in the file.
Written == SelectSeq(file, LAMBDA region : region.trailer)

RECURSIVE SumRegions(_)
SumRegions(regions) ==
    IF regions = << >> THEN 0
    ELSE Head(regions).size + SumRegions(Tail(regions))

HandlesIncrease ==
    \A i \in 1 .. (Len(index_block) - 1) :
        /\ index_block[i].offset < index_block[i + 1].offset
        /\ index_block[i].offset + index_block[i].size + kBlockTrailerSize
             <= index_block[i + 1].offset

\* C3 as stated: in every state the offset is the sum of (payload size + 5)
\* over the blocks written so far, and the handles of the index increase.
C3_OffsetIsBytesWritten ==
    /\ offset = SumRegions(Written)
    /\ HandlesIncrease

FinishSealed == finRet = Returned(OK)

\* C3, amended: the offset never decreases; until Finish seals the file it is
\* the sum of (payload size + 5) over the blocks that have an index entry,
\* which get their place in the file before their bytes are copied and also
\* when Allocate fails, and a successful Finish adds the footer; the handles
\* of the index have strictly increasing offsets, each block ending at or
\* before the next one's offset.
C3_OffsetIsBytesReserved ==
    /\ [](/\ offset = SumBytes(index_block) + (IF FinishSealed THEN kFooterSize ELSE 0)
          /\ HandlesIncrease)
    /\ [][offset' >= offset]_vars

C3_Witness ==
    /\ Len(index_block) >= 3
    /\ \E i \in 1 .. Len(file) : ~file[i].trailer
    /\ offset > SumRegions(Written)

\* C6: once the status is not ok, it keeps its value in every later step.
C6_StatusSticky == [][status # OK => status' = status]_vars

\* C8: when Abandon has been called a second time, no assertion of Abandon
\* has failed, no worker has been joined twice and the process has not died.
C8_AbandonTwiceSafe ==
    nAbandon >= 2 =>
        /\ "Abandon:!closed" \notin asserts
        /\ \A w \in Workers : joined[w] <= 1
        /\ pc # "crashed"

\* The number of keys offered to the filter that it let through.
RECURSIVE CountKept(_)
CountKept(ds) ==
    IF ds = << >> THEN 0
    ELSE (IF Head(ds) THEN 0 ELSE 1) + CountKept(Tail(ds))

WriteStepFailed ==
    asserts \cap {"Write:ok", "Write:assign ok", "Write:append ok"} # {}

\* C5: after an I/O error in the write step the build goes on until
\* BuildTable has returned, with all workers joined and the file deleted.
C5_ErrorEndsBuild ==
    WriteStepFailed =>
        \/ ENABLED NextBuild
        \/ /\ BuildReturned
           /\ \A w \in Workers : joined[w] = 1
           /\ ~fileExists

\* C10: BuildTable calls Finish only when the builder is ok, and calls Abandon
\* when it is not.
C10_FinishOnlyIfOk ==
    \A c \in btCalls : (c.op = "Finish") <=> c.ok

\* Finish has returned with both workers exited and joined, and every block
\* that was flushed is in the file, whole, with its index entry.
FinishDone ==
    /\ finRet = Returned(OK)
    /\ pc = "idle"
    /\ \A w \in Workers : wpc[w] = "done" /\ joined[w] = 1 /\ ~m_Writers[w]
    /\ Len(file) = Len(flushed)
    /\ \A i \in 1 .. Len(file) : file[i].trailer /\ file[i].data = flushed[i]
    /\ Len(index_block) = Len(flushed)

\* C4: with no I/O error and fair scheduling, a call of Finish returns, with
\* both workers exited and joined and every flushed block written.
C4_FinishReturns == (finRet = InCall) ~> FinishDone

C4_Witness ==
    /\ FinishDone
    /\ Len(flushed) >= 3
    /\ \E i \in 1 .. Len(flushed) : Len(flushed[i]) < MaxBlockRecs

\* The first call of Abandon has returned with both workers exited and joined.
AbandonDone ==
    /\ nAbandon = 1
    /\ pc = "idle"
    /\ \A w \in Workers : wpc[w] = "done" /\ joined[w] = 1

\* C7: with fair scheduling, a call of Abandon, whatever the state of the
\* pipeline, returns with both workers exited and joined.
C7_AbandonReturns == (nAbandon = 1 /\ pc = "Abandon_abort") ~> AbandonDone

C7_Witness ==
    /\ AbandonDone
    /\ \E i \in Slots : m_Blocks[i].m_State = eBNStateLoading
    /\ \E i \in Slots : m_Blocks[i].m_State = eBNStateFull
    /\ \E i \in Slots : m_Blocks[i].m_State = eBNStateReady

\* C11: once a step of BuildTable has produced an error, no later step other
\* than cleanup is executed; after an iterator error Finish, Sync, Close and
\* the verification are skipped.
C11_ShortCircuit == \A e \in btSteps : ~e.after_error

\* C12: when the iterator fails after yielding records, BuildTable returns the
\* iterator's error, the output file is deleted and the workers are joined.
C12_IterErrorReturned ==
    (BuildReturned /\ IterFailed /\ iterErrAt >= 2)
        => /\ btRet = Returned(IterError)
           /\ ~fileExists
           /\ \A w \in Workers : wpc[w] = "done" /\ joined[w] = 1

C12_Witness ==
    /\ BuildReturned /\ IterFailed /\ iterErrAt >= 3
    /\ Len(file) >= 1
    /\ \E e \in btSteps : e.op = "Verify"

\* C13: when the iterator is not empty and every record is retired, no output
\* file remains after BuildTable returns.
C13_EmptyOutputDeleted ==
    (BuildReturned /\ input # << >> /\ meta.num_entries = 0) => ~fileExists

\* C14: from an empty iterator BuildTable returns success with file_size 0,
\* creates no file, no builder and no worker, and leaves no file.
C14_EmptyInput ==
    (BuildReturned /\ input = << >> /\ IterStatus = OK)
        => /\ btRet = Returned(OK)
           /\ meta.file_size = 0
           /\ ~fileExists
           /\ btSteps = {} /\ btCalls = {}
           /\ \A w \in Workers : wpc[w] = "unborn" /\ ~m_Writers[w]

C14_Witness == BuildReturned /\ input = << >> /\ IterStatus = OK /\ pc = "bt_done"

\* The slots whose block CompressBlock has finished and WriteBlock2 has not
\* placed yet.
Compressed ==
    {i \in Slots : m_Blocks[i].m_State \in
                      {eBNStateKeyWait, eBNStateReady, eBNStateWriting}}

\* The slots that hold a block that went through CompressBlock.
PastCompress == Compressed \cup {i \in Slots : m_Blocks[i].m_State = eBNStateCopying}

\* The raw size of a block, and the size Snappy must stay below.
RawSize(keys) == RecBytes * Len(keys)
Limit(keys) == RawSize(keys) - (RawSize(keys) \div 8)

\* The blocks that went through CompressBlock and for which `raw(keys)` holds:
\* those placed in the file and those still waiting for their turn.
CountBlocks(raw(_)) ==
    Cardinality({k \in 1 .. Len(placed) : raw(placed[k])})
      + Cardinality({i \in Compressed : raw(m_Blocks[i].keys)})

AnyBlock(keys) == TRUE
AtLimit(keys) == Snappy_Compress(keys) >= Limit(keys)
OverLimit(keys) == Snappy_Compress(keys) > Limit(keys)

FinishOk == finRet = Returned(OK) /\ nAbandon = 0 /\ ioErrs = 0

\* C16: when Finish returns, the block counter is the number of blocks
\* flushed and the compression-aborted counter is the number of blocks stored
\* raw, whatever the interleaving of the two workers in CompressBlock.
C16_NoIncrementLost ==
    FinishOk
      => /\ sst_counters[eSstCountBlocks] = Len(flushed)
         /\ sst_counters[eSstCountCompressAborted] =
               Cardinality({k \in 1 .. Len(flushed) : AtLimit(flushed[k])})

\* Without a lost update the counters are exact when Finish returns.
CountersExactUnlessLost ==
    (FinishOk /\ lost = 0)
      => /\ sst_counters[eSstCountBlocks] = Len(flushed)
         /\ placed = flushed
         /\ sst_counters[eSstCountCompressAborted] = CountBlocks(AtLimit)

\* DecodeFrom has returned.
Decoded == dec.pc = "done"

\* Every field was decoded: the version, a supported one, the number of
\* counters and every counter.
AllDecoded == dec.good /\ dec.loop = eSstCountEnumSize

\* C17: DecodeFrom returns a non-ok status whenever a varint cannot be decoded
\* or the version is greater than the supported one, and returns ok only when
\* all fields were decoded.
C17_DecodeStatus == Decoded => ((dec.ret = Returned(OK)) <=> AllDecoded)

\* Sequence a is the beginning of sequence b.
IsPrefix(a, b) == Len(a) <= Len(b) /\ \A k \in 1 .. Len(a) : a[k] = b[k]

\* The size CompressBlock gives the block of these keys.
StoredSize(keys) ==
    IF AtLimit(keys) THEN RawSize(keys) ELSE Snappy_Compress(keys)

\* C18: blocks are written in the order the ingest thread flushed them: the
\* k-th block to go Loading -> Full is the k-th block to get a file offset and
\* an index entry, whatever the interleaving of the workers.
C18_WrittenInFlushOrder ==
    /\ IsPrefix(placed, flushed)
    /\ Len(index_block) = Len(placed)
    /\ \A k \in 1 .. Len(index_block) :
          /\ index_block[k].size = StoredSize(flushed[k])
          /\ index_block[k].key >= flushed[k][Len(flushed[k])]
          /\ k > 1 => index_block[k].offset > index_block[k - 1].offset

\* A later block has finished compression while the block whose turn it is
\* is still being compressed, after some block was placed.
C18_Witness ==
    /\ Len(placed) >= 1
    /\ m_Blocks[m_NextWrite].m_State = eBNStateCompress
    /\ \E i \in Slots \ {m_NextWrite} : m_Blocks[i].m_State = eBNStateReady

\* The slots in state Writing, and the workers in the sequential part of
\* WriteBlock2 (lines 433-463).
WritingSlots == {i \in Slots : m_Blocks[i].m_State = eBNStateWriting}
Writers == {w \in Workers : InWriteBlock2(w)}

\* C19: at most one slot is in state Writing, and it is the slot at
\* m_NextWrite; so at most one worker is in the sequential part of the write
\* step, and it holds that slot.
C19_OneWriter ==
    /\ Cardinality(WritingSlots) <= 1
    /\ WritingSlots \subseteq {m_NextWrite}
    /\ Cardinality(Writers) <= 1
    /\ \A w \in Writers : widx[w] = m_NextWrite /\ widx[w] \in WritingSlots

\* A worker is in the sequential part while a later block is Ready and the
\* other worker is awake.
C19_Witness ==
    /\ Writers # {}
    /\ \E i \in Slots : m_Blocks[i].m_State = eBNStateReady
    /\ \E w \in Workers \ Writers : wpc[w] = "look" /\ w \notin waiting

\* The state changes of a slot that are in the claimed graph.
ClaimedEdges ==
    { <<eBNStateEmpty, eBNStateLoading>>, <<eBNStateLoading, eBNStateFull>>,
      <<eBNStateFull, eBNStateCompress>>,
      <<eBNStateCompress, eBNStateReady>>, <<eBNStateCompress, eBNStateKeyWait>>,
      <<eBNStateKeyWait, eBNStateReady>>,
      <<eBNStateReady, eBNStateWriting>>, <<eBNStateKeyWait, eBNStateWriting>>,
      <<eBNStateWriting, eBNStateCopying>>, <<eBNStateCopying, eBNStateEmpty>> }

\* Every slot keeps its state or changes it along an edge of `edges`.
Follows(edges) ==
    \A i \in Slots :
        \/ m_Blocks'[i].m_State = m_Blocks[i].m_State
        \/ <<m_Blocks[i].m_State, m_Blocks'[i].m_State>> \in edges

\* C20 as stated: every state change of a slot follows Empty -> Loading ->
\* Full -> Compressing -> (Ready | KeyWait) -> Writing -> Copying -> Empty, with
\* KeyWait -> Ready as the only other edge.
C20_ClaimedGraph == [][Follows(ClaimedEdges)]_vars

\* C20, amended: every state change of a slot follows the claimed graph or
\* the edge Compressing -> Writing, which CompressBlock takes for a block whose
\* key is shortened and whose turn it is.
C20_Graph ==
    [][Follows(ClaimedEdges \cup {<<eBNStateCompress, eBNStateWriting>>})]_vars

\* CompressBlock has moved the block it compressed straight to Writing and
\* called WriteBlock2 for it.
C20_Witness ==
    \E w \in Workers :
        /\ wpc[w] = "Compress_write"
        /\ m_Blocks[widx[w]].m_State = eBNStateWriting

\* Both workers have left WorkerThread.
WorkersDone == \A w \in Workers : wpc[w] = "done"

\* Worker w leaves WorkerThread in this step.
Exits(w) == wpc[w] # "done" /\ wpc'[w] = "done"

\* C21: a worker exits only when m_Abort is set or when m_Finish is set and
\* all slots are Empty; so when the workers have exited without abort, every
\* slot is Empty, m_NextWrite = m_NextAdd and the index has one entry per
\* block flushed.
C21_ExitRule ==
    /\ [][\A w \in Workers : Exits(w) => (m_Abort \/ (m_Finish /\ AllEmpty))]_vars
    /\ []((WorkersDone /\ ~m_Abort)
            => /\ m_Finish
               /\ \A i \in Slots : m_Blocks[i].m_State = eBNStateEmpty
               /\ m_NextWrite = m_NextAdd
               /\ Len(index_block) = Len(flushed))

C21_Witness ==
    /\ WorkersDone /\ ~m_Abort
    /\ finRet # NotCalled /\ finRet # InCall
    /\ Len(flushed) >= 3 /\ m_NextAdd # 0

\* The block after the one in slot i has got its first key: slot i does not
\* hold the block flushed last, or the slot at m_NextAdd is Loading.
NextStarted(i) ==
    i # Pred(m_NextAdd) \/ m_Blocks[m_NextAdd].m_State = eBNStateLoading

\* C22 as stated: a slot's m_KeyShortened is true if and only if its state is
\* Writing or Copying.
C22_ShortenedIffWriting ==
    \A i \in Slots :
        m_Blocks[i].m_KeyShortened
          <=> m_Blocks[i].m_State \in {eBNStateWriting, eBNStateCopying}

\* C22, amended: a slot in Writing or Copying has m_KeyShortened true, and so
\* has a slot in Ready; a slot in Empty, Loading or KeyWait has it false; a
\* slot in Full or Compressing has it true exactly when the next block has
\* been started.
C22_ShortenedByState ==
    \A i \in Slots :
        LET b == m_Blocks[i]
        IN /\ b.m_State \in {eBNStateWriting, eBNStateCopying, eBNStateReady}
                => b.m_KeyShortened
           /\ b.m_State \in {eBNStateEmpty, eBNStateLoading, eBNStateKeyWait}
                => ~b.m_KeyShortened
           /\ b.m_State \in {eBNStateFull, eBNStateCompress}
                => (b.m_KeyShortened <=> NextStarted(i))

\* A block whose key is shortened is still Full, and another one is being
\* compressed with its key shortened.
C22_Witness ==
    /\ \E i \in Slots : m_Blocks[i].m_State = eBNStateFull /\ m_Blocks[i].m_KeyShortened
    /\ \E i \in Slots : m_Blocks[i].m_State = eBNStateCompress /\ m_Blocks[i].m_KeyShortened
    /\ \E i \in Slots : m_Blocks[i].m_State = eBNStateCopying

\* The assertions on m_KeyShortened: Add line 126, WorkerThread line 238,
\* WriteBlock2 line 451.
ShortenedAsserts == {"Add:!shortened", "Worker:!shortened", "Write:shortened"}

\* C23: for each fill of a slot m_KeyShortened goes from false to true once,
\* before the slot is written, and back to false only when the slot is reset;
\* the separator step and the step for the last block never find it true, and
\* it is true when WriteBlock2 appends the index entry.
C23_ShortenedOnce ==
    /\ [](asserts \cap ShortenedAsserts = {})
    /\ [][\A i \in Slots :
            LET b == m_Blocks[i]
                b2 == m_Blocks'[i]
            IN /\ (~b.m_KeyShortened /\ b2.m_KeyShortened)
                    => /\ b.m_State \in {eBNStateFull, eBNStateCompress, eBNStateKeyWait}
                       /\ b2.m_State # eBNStateCopying
               /\ (b.m_KeyShortened /\ ~b2.m_KeyShortened)
                    => b.m_State = eBNStateCopying /\ b2.m_State = eBNStateEmpty
               /\ b2.m_State = eBNStateCopying => b.m_KeyShortened]_vars

\* A table of three blocks or more is complete: the separator step marked
\* all blocks but the last, and the step for the last block marked that one.
C23_Witness ==
    /\ m_Finish /\ ~m_Abort
    /\ Len(index_block) >= 3
    /\ Len(index_block) = Len(flushed)
    /\ index_block[Len(index_block)].key
          = FindShortSuccessor(flushed[Len(flushed)][Len(flushed[Len(flushed)])])

\* C30: a slot in KeyWait has m_KeyShortened false, a slot in Ready has it
\* true and a slot in Empty has it false.
C30_ParkedAgrees ==
    \A i \in Slots :
        /\ m_Blocks[i].m_State = eBNStateKeyWait => ~m_Blocks[i].m_KeyShortened
        /\ m_Blocks[i].m_State = eBNStateReady => m_Blocks[i].m_KeyShortened
        /\ m_Blocks[i].m_State = eBNStateEmpty => ~m_Blocks[i].m_KeyShortened

\* A block is parked in Ready, a later one in KeyWait, and a slot that held a
\* block is Empty again.
C30_Witness ==
    /\ \E i \in Slots : m_Blocks[i].m_State = eBNStateReady
    /\ \E i \in Slots : m_Blocks[i].m_State = eBNStateKeyWait
    /\ m_NextWrite # 0 /\ m_Blocks[0].m_State = eBNStateEmpty

\* The step of WorkerThread, lines 234-243, on slot i: KeyWait to Writing.
LastBlockStep(i) ==
    /\ m_Blocks[i].m_State = eBNStateKeyWait
    /\ m_Blocks'[i].m_State = eBNStateWriting

\* The separator step of Add, lines 123-127, on slot i.
SeparatorStep(i) ==
    /\ ~m_Blocks[i].m_KeyShortened /\ m_Blocks'[i].m_KeyShortened
    /\ ~LastBlockStep(i)

\* C24: FindShortSuccessor is applied to the last block of the stream only:
\* with m_Finish set, on the slot at m_NextWrite in KeyWait whose ring
\* successor is Empty.  Any other block enters Writing with the separator
\* FindShortestSeparator made of its last key and the first key of the next
\* block, and a key is marked as shortened only in the step of Add that puts
\* the first key of the next block, or in the step for the last block.
C24_SeparatorNeedsNextKey ==
    [][\A i \in Slots :
        LET b == m_Blocks[i]
            next == m_Blocks[Succ(i)]
        IN /\ LastBlockStep(i)
                => /\ m_Finish
                   /\ i = m_NextWrite
                   /\ next.m_State = eBNStateEmpty
                   /\ ~Live
                   /\ \A j \in Slots : m_Blocks[j].m_State # eBNStateLoading
                   /\ flushed # << >> /\ b.keys = flushed[Len(flushed)]
                   /\ m_Blocks'[i].m_LastKey = FindShortSuccessor(b.m_LastKey)
           /\ (b.m_State # eBNStateWriting /\ m_Blocks'[i].m_State = eBNStateWriting
                 /\ ~LastBlockStep(i))
                => /\ b.m_KeyShortened
                   /\ next.keys # << >>
                   /\ b.m_LastKey
                        = FindShortestSeparator(b.keys[Len(b.keys)], Head(next.keys))
           /\ SeparatorStep(i)
                => /\ pc = "Add_first"
                   /\ i = Pred(m_NextAdd)
                   /\ m_Blocks[m_NextAdd].m_State = eBNStateEmpty
                   /\ m_Blocks'[m_NextAdd].keys = << curKey >>
                   /\ m_Blocks'[i].m_LastKey
                        = FindShortestSeparator(b.m_LastKey, curKey)]_vars

\* The last of three blocks or more is being written after Finish with the
\* key FindShortSuccessor gave it; the blocks before it are in the index.
C24_Witness ==
    /\ m_Finish /\ ~m_Abort
    /\ Len(index_block) >= 2
    /\ Len(index_block) + 1 = Len(flushed)
    /\ LET b == m_Blocks[m_NextWrite]
       IN /\ b.m_State = eBNStateWriting
          /\ b.keys = flushed[Len(flushed)]
          /\ b.m_LastKey = b.keys[Len(b.keys)] + 1
          /\ m_Blocks[Succ(m_NextWrite)].m_State = eBNStateEmpty

\* C25: every write to a slot's m_State or m_LastKey, to m_NextAdd or
\* m_NextWrite, and to m_Abort or m_Finish is made by a thread that holds
\* m_CvMutex.
C25_WritesUnderMutex == \A w \in writes : w.locked

\* The states in which a worker works on a slot's encoder and buffers.
Held == {eBNStateCompress, eBNStateWriting, eBNStateCopying}

\* The state of the slot a worker works on, by the worker's place `at` in
\* the code: CompressBlock up to line 342, WriteBlock2 up to line 463,
\* WriteBlock2 from line 465; FALSE at any other place.
HoldsAs(at, st) ==
    \/ at = "Compress" /\ st = eBNStateCompress
    \/ at \in {"Write", "Compress_write"} /\ st = eBNStateWriting
    \/ at \in {"Write_assign", "Write_append"} /\ st = eBNStateCopying

Holders(i) == {w \in Workers : widx[w] = i /\ HoldsAs(wpc[w], m_Blocks[i].m_State)}

\* The encoder and buffers of a slot: the records, the type and the stored
\* size.
Buffers(b) == << b.keys, b.m_Type, b.size >>

\* C26: a slot in Compressing, Writing or Copying is worked on by exactly one
\* worker, the one that claimed it; a worker inside CompressBlock or
\* WriteBlock2 works on a slot in the matching state; the ingest thread puts
\* records only into a slot that is Empty or Loading, which no worker works
\* on; a slot's buffers change only in a step of the thread that holds it,
\* and a slot enters one of the three states only in a step of the worker
\* that holds it afterwards.
C26_OneThreadPerSlot ==
    /\ [](\A i \in Slots :
            /\ m_Blocks[i].m_State \in Held => Cardinality(Holders(i)) = 1
            /\ m_Blocks[i].m_State \notin Held => Holders(i) = {})
    /\ [](\A w \in Workers :
            wpc[w] \in {"Compress", "Write", "Compress_write", "Write_assign", "Write_append"}
                => w \in Holders(widx[w]))
    /\ [](pc = "Add_first" => Helpful(m_Blocks[m_NextAdd]))
    /\ []("Add:state" \notin asserts /\ "Compress:state" \notin asserts
            /\ "Write:state" \notin asserts)
    /\ [][\A i \in Slots :
            LET b == m_Blocks[i]
                b2 == m_Blocks'[i]
            IN /\ (Buffers(b2) # Buffers(b) /\ b.m_State \in Held)
                    => \E w \in Holders(i) : wpc'[w] # wpc[w]
               /\ (Buffers(b2) # Buffers(b) /\ b.m_State \notin Held)
                    => /\ wpc' = wpc
                       /\ pc = "Add_first" /\ i = m_NextAdd
                       /\ b2.m_State = eBNStateLoading
               /\ (b2.m_State \in Held /\ b2.m_State # b.m_State)
                    => \E w \in Workers :
                          /\ wpc'[w] # wpc[w]
                          /\ widx'[w] = i /\ HoldsAs(wpc'[w], b2.m_State)
                          /\ b.m_State \in Held => w \in Holders(i)]_vars

\* One worker compresses a block, the other copies a block into the file, and
\* the ingest thread is about to put a record into the block it is loading.
C26_Witness ==
    /\ \E w \in Workers : wpc[w] = "Compress"
    /\ \E w \in Workers : wpc[w] = "Write_assign"
    /\ pc = "Add_first" /\ m_Blocks[m_NextAdd].m_State = eBNStateLoading

\* A step of the ingest thread, and a step of worker w, that changes slot i.
IngestChanges(i) == wpc' = wpc /\ m_Blocks'[i] # m_Blocks[i]
WorkerChanges(w, i) == wpc'[w] # wpc[w] /\ m_Blocks'[i] # m_Blocks[i]

\* A worker never changes a slot that is Loading nor one that another worker
\* holds in Writing.
WorkerFrame ==
    \A w \in Workers : \A i \in Slots :
        WorkerChanges(w, i)
            => /\ m_Blocks[i].m_State # eBNStateLoading
               /\ m_Blocks[i].m_State = eBNStateWriting => w \in Holders(i)

\* C27 as stated: the ingest thread changes no slot but the one at m_NextAdd,
\* and a worker never changes a slot that is Loading or that another worker
\* holds in Writing.
C27_IngestOnlyNextAdd ==
    [][/\ \A i \in Slots : IngestChanges(i) => i = m_NextAdd
       /\ WorkerFrame]_vars

\* C27, amended: the ingest thread changes the slot at m_NextAdd and, in the
\* step that starts a block, m_LastKey, m_KeyShortened and (KeyWait to Ready
\* only) m_State of the slot before it; nothing else of that slot and no
\* other slot.  The worker part is as stated, and a worker changes no slot
\* but the one it holds before or after the step.
C27_IngestFrame ==
    [][/\ \A i \in Slots :
            IngestChanges(i)
                => \/ i = m_NextAdd
                   \/ /\ i = Pred(m_NextAdd)
                      /\ m_Blocks[m_NextAdd].m_State = eBNStateEmpty
                      /\ m_Blocks'[m_NextAdd].m_State = eBNStateLoading
                      /\ Buffers(m_Blocks'[i]) = Buffers(m_Blocks[i])
                      /\ \/ m_Blocks'[i].m_State = m_Blocks[i].m_State
                         \/ /\ m_Blocks[i].m_State = eBNStateKeyWait
                            /\ m_Blocks'[i].m_State = eBNStateReady
       /\ WorkerFrame
       /\ \A w \in Workers : \A i \in Slots :
            WorkerChanges(w, i) => i = widx[w] \/ i = widx'[w]]_vars

\* The ingest thread started a block and made the block before it Ready,
\* while a worker copies an earlier block.
C27_Witness ==
    /\ m_Blocks[m_NextAdd].m_State = eBNStateLoading
    /\ m_Blocks[Pred(m_NextAdd)].m_State = eBNStateReady
    /\ \E w \in Workers : wpc[w] = "Write_assign"

\* The ingest thread is blocked in m_CondVar.Wait(), Add line 93.
IngestBlocked == Ingest \in waiting

\* C28 as stated: while the ingest thread is blocked in Add, no slot of the
\* ring is Empty or Loading.
C28_AllSlotsHostile ==
    IngestBlocked
        => \A i \in Slots :
              m_Blocks[i].m_State \notin {eBNStateEmpty, eBNStateLoading}

\* C28, amended: while the ingest thread is blocked in Add, the slot at
\* m_NextAdd is neither Empty nor Loading, and no slot is Loading.
C28_NextAddHostile ==
    IngestBlocked
        => /\ pc = "Add_wait"
           /\ m_Blocks[m_NextAdd].m_State \notin {eBNStateEmpty, eBNStateLoading}
           /\ \A i \in Slots : m_Blocks[i].m_State # eBNStateLoading

\* The ingest thread is blocked on the slot at m_NextAdd, which is being
\* copied, while a slot written after it is Empty again.
C28_Witness ==
    /\ IngestBlocked
    /\ m_Blocks[m_NextAdd].m_State = eBNStateCopying
    /\ \E i \in Slots : m_Blocks[i].m_State = eBNStateEmpty

\* The ingest thread and both workers are blocked in m_CondVar.Wait().
AllBlocked == waiting = {Ingest} \cup Workers

\* C29: with no I/O error and the threads scheduled fairly, the ingest
\* thread and the two workers are never all blocked on the condition
\* variable, and an Add that waits for the slot at m_NextAdd goes on to put
\* its key.
C29_AddProceeds ==
    /\ []~AllBlocked
    /\ (pc = "Add_wait") ~> (pc = "Add_first")

\* The ingest thread is blocked in Add and a worker is blocked with no work,
\* while the last block handed on waits for the next key.
C29_Witness ==
    /\ IngestBlocked
    /\ \E w \in Workers : w \in waiting
    /\ m_Blocks[Pred(m_NextAdd)].m_State = eBNStateKeyWait

\* BuildTable returned success and kept the file.
FileKept == btRet = Returned(OK) /\ fileExists

\* C31: when BuildTable returns success and keeps the file, meta.smallest is
\* the smallest key stored in the file, meta.largest is the largest key
\* stored in the file, and meta.num_entries is the number of records stored
\* in the file.
C31_MetaMatchesFile ==
    FileKept
        => /\ meta.num_entries = Len(FileKeys)
           /\ FileKeys # << >>
                => /\ meta.smallest = FileKeys[1]
                   /\ meta.largest = FileKeys[Len(FileKeys)]

\* The slots a worker works on.
HeldSlots == {i \in Slots : m_Blocks[i].m_State \in Held}

\* The slot the k-th block handed on by Flush went into.
SlotOf(k) == (k - 1) % eTB2Buffers

\* The blocks Flush handed on that are not reset yet, by their place in
\* `flushed`: those that have no place in the file yet, and those that have
\* one and are still in their slot, being copied.
Unreset ==
    {k \in 1 .. Len(flushed) :
        \/ k > Len(placed)
        \/ /\ m_Blocks[SlotOf(k)].m_State = eBNStateCopying
           /\ m_Blocks[SlotOf(k)].keys = flushed[k]}

\* C32: at most eTB2Threads slots are in Compressing, Writing or Copying,
\* each worker holding at most one of them, and at most eTB2Buffers blocks
\* are flushed and not yet reset, each of them still in its slot.
C32_HeldAndUnresetBounded ==
    /\ Cardinality(HeldSlots) <= eTB2Threads
    /\ \A w \in Workers : Cardinality({i \in HeldSlots : w \in Holders(i)}) <= 1
    /\ Cardinality(Unreset) <= eTB2Buffers
    /\ \A k \in Unreset :
          /\ m_Blocks[SlotOf(k)].keys = flushed[k]
          /\ m_Blocks[SlotOf(k)].m_State \notin {eBNStateEmpty, eBNStateLoading}

\* The ring is full of blocks not yet reset, and each worker works on one.
C32_Witness ==
    /\ Cardinality(HeldSlots) = eTB2Threads
    /\ Cardinality(Unreset) = eTB2Buffers
    /\ Len(placed) >= 1

====
